---- MODULE Spec2Model ----
(***************************************************************************)
(* The persistent worker-process bridge of fast_dex.py (FastDexEditor):    *)
(* one long-lived helper process, requests written as one JSON line,       *)
(* responses delimited by counting braces over the lines read back.        *)
(*                                                                         *)
(* Text is modelled as a sequence of pieces.  A piece is a run of          *)
(* characters of the stream:                                               *)
(*    "{"  "}"   one brace character                                       *)
(*    "\n"       the newline character                                     *)
(*    "q"        one double-quote character                                *)
(* The worker is opaque: it may write any piece at any time, close its     *)
(* output, or exit (by itself or killed).                                  *)
(*                                                                         *)
(* The method editor of smali_utils.py (get_method_from_smali,             *)
(* replace_method_in_smali, insert_smali_code) and the smali tools of      *)
(* server.py that read a file, edit its text and write it back.  A text    *)
(* is the sequence of its lines, content.split("\n"); a line is one of a   *)
(* few smali lines.  The bridge runs under Spec (its methods) and          *)
(* SpecTools (the tool functions, fast_dex_open included), the editor      *)
(* under SpecSmali.                                                        *)
(***************************************************************************)
EXTENDS Integers, Sequences, FiniteSets, TLC

\* ---- bounds -------------------------------------------------------------
NumTasks == 2       \* tool calls that can be pending on the event loop
MaxProcs == 2       \* worker processes that can be started in one run
MaxOps == 3         \* calls of the bridge (_send_command, close) in one run
MaxOut == 4         \* pieces one worker writes to its output
MaxLines == 6       \* lines of a smali file

Tasks == 1..NumTasks
Pids == 1..MaxProcs

\* self.process = None
NoProc == 0
\* no task is executing on the event loop
NoTask == 0

Pieces == {"{", "}", "\n", "q"}
\* the command of a tool that is one call of _send_command (get_class
\* stands for list_classes, get_method, modify_class, save, search_class,
\* search_string, summary, get_paged, to_java, deobfuscate and
\* decompile_package as well; open is sent by StartOpen)
SendCommands == {"get_class"}

\* ---- state --------------------------------------------------------------
VARIABLES
    process,      \* FastDexEditor.process: NoProc or the pid held
    nextPid,      \* pid the next successful Popen returns
    procState,    \* pid -> "unborn" | "alive" | "exited"  (poll() is not None iff "exited")
    outOpen,      \* pid -> the worker still has its stdout open
    pipe,         \* pid -> pieces written by the worker and not yet read
    nOut,         \* pid -> number of pieces the worker has written
    inbox,        \* pid -> pieces delivered to the worker's stdin
    wbuf,         \* pieces written to process.stdin and not yet flushed
    signalled,    \* pids that terminate() sent a signal to
    running,      \* the task executing on the event loop thread, or NoTask
    nops,         \* calls of the bridge that tool calls have claimed
    op,           \* task -> "none" | "send" | "open_jadx" | "close"
    cmd,          \* task -> command of the exchange
    pc,           \* task -> position in _send_command / close
    lines,        \* task -> local `lines`
    brace_count,  \* task -> local `brace_count`
    started,      \* task -> local `started`
    seen,         \* task -> every line readline() returned in this exchange
    eof,          \* task -> readline() returned "" in this exchange
    held0,        \* task -> the handle when the call began
    result,       \* task -> what the call returned (or that it raised)
    sent,         \* task -> the commands whose request this tool call wrote
    failedLast,   \* the last _send_command ended in a transport error and
                  \* no request has been written since
    answers,      \* pid -> the responses an answering worker has written
    file,         \* the text of the smali file on disk
    content,      \* file_result["content"]: the text the tool read
    call,         \* the smali tool that ran, with its arguments
    ret,          \* what the editor function returned to the tool
    back          \* what smali_get_method returns on the file after the edit

bridgeVars == <<process, nextPid, procState, outOpen, pipe, nOut, inbox, wbuf,
                signalled, running, nops, op, cmd, pc, lines,
                brace_count, started, seen, eof, held0, result, sent, failedLast,
                answers>>
smaliVars == <<file, content, call, ret, back>>
vars == <<bridgeVars, smaliVars>>

procVars == <<process, nextPid, procState, outOpen, pipe, nOut, inbox, wbuf,
              signalled>>
localVars == <<lines, brace_count, started, seen, eof>>

\* ---- text helpers -------------------------------------------------------
RECURSIVE Flatten(_)
\* "".join(lines)
Flatten(ls) == IF ls = <<>> THEN <<>> ELSE Head(ls) \o Flatten(Tail(ls))

HasNewline(buf) == \E i \in 1..Len(buf) : buf[i] = "\n"

FirstNewline(buf) ==
    CHOOSE i \in 1..Len(buf) : buf[i] = "\n" /\ \A j \in 1..(i-1) : buf[j] # "\n"

\* stdout.readline(): the text up to and including the first newline; at
\* end of file whatever is left, possibly nothing.
TakeLine(buf) == IF HasNewline(buf) THEN SubSeq(buf, 1, FirstNewline(buf)) ELSE buf

\* a read that returns whatever has arrived instead of waiting for the newline
LineReadyAnyChunk(buf, open) == buf # <<>> \/ ~open

\* a read that gives up waiting: it returns what is there at any moment
LineReadyOrTimeout(buf, open) == TRUE

\* readline() blocks until a whole line is there or the stream is closed.
LineReady(buf, open) == HasNewline(buf) \/ ~open

RECURSIVE ScanLine(_, _, _, _)
\* the loop `for ch in line` over brace_count and started
ScanLine(line, i, count, st) ==
    IF i > Len(line) THEN [count |-> count, started |-> st]
    ELSE IF line[i] = "{" THEN ScanLine(line, i + 1, count + 1, TRUE)
    ELSE IF line[i] = "}" THEN ScanLine(line, i + 1, count - 1, st)
    ELSE ScanLine(line, i + 1, count, st)

\* the completion test without `started`
CompleteUnstarted(st, count) == count = 0

\* `if started and brace_count == 0: break`
Complete(st, count) == st /\ count = 0

\* the request without its terminating newline
RequestTextNoNewline(c) == <<c>>

\* json.dumps(request) + "\n": the request object (one piece, named by its
\* command) followed by a newline
RequestText(c) == <<c, "\n">>

\* ---- json.loads over pieces ---------------------------------------------
RECURSIVE SkipWs(_, _)
SkipWs(s, i) == IF i <= Len(s) /\ s[i] = "\n" THEN SkipWs(s, i + 1) ELSE i

RECURSIVE StringEnd(_, _)
\* s[i] is past the opening quote; the index after the closing quote, 0 if
\* the string is not terminated (a raw newline inside a string is an error)
StringEnd(s, i) ==
    IF i > Len(s) THEN 0
    ELSE IF s[i] = "q" THEN i + 1
    ELSE IF s[i] \in {"{", "}"} THEN StringEnd(s, i + 1)
    ELSE 0

RECURSIVE ParseValue(_, _)
\* the index after the JSON value that starts at s[i], 0 if there is none.
\* Over these pieces a value is a string, the empty object, or an object
\* with one member: "{", the key with its colon, a value, "}".
ParseValue(s, i) ==
    IF i > Len(s) THEN 0
    ELSE IF s[i] = "q" THEN StringEnd(s, i + 1)
    ELSE IF s[i] = "{" THEN
        LET j == SkipWs(s, i + 1) IN
        IF j > Len(s) THEN 0
        ELSE IF s[j] = "}" THEN j + 1
        ELSE IF s[j] = "k" THEN
            LET v == ParseValue(s, SkipWs(s, j + 1)) IN
            IF v = 0 THEN 0
            ELSE LET e == SkipWs(s, v) IN
                 IF e <= Len(s) /\ s[e] = "}" THEN e + 1 ELSE 0
        ELSE 0
    ELSE 0

JsonValid(s) ==
    LET v == ParseValue(s, SkipWs(s, 1)) IN v # 0 /\ SkipWs(s, v) = Len(s) + 1

\* the parsed value: the text without the whitespace between its tokens
JsonValue(s) == SelectSeq(s, LAMBDA p : p # "\n")

NoResult == [kind |-> "none", value |-> <<>>]
Outcome(k) == [kind |-> k, value |-> <<>>]

\* lines 72-78: the value _send_command returns once the read loop is over
Decode(ls) ==
    IF ls = <<>> THEN Outcome("no_response")
    ELSE IF JsonValid(Flatten(ls)) THEN [kind |-> "value", value |-> JsonValue(Flatten(ls))]
    ELSE Outcome("json_error")

\* ---- smali text ---------------------------------------------------------
SmaliLines ==
    {".method public foo()V", ".method public foobar()V", ".end method",
     "    .locals 1", "    return-void"}

\* the method_name argument
MethodNames == {"foo", "foobar"}

\* `".method" in line`
HasMethodMarker(line) ==
    line \in {".method public foo()V", ".method public foobar()V", ".method bar()V"}

\* `method_name in line`: the name occurs in the line as a substring
NameIn(name, line) ==
    \/ name = "foo" /\ line \in {".method public foo()V", ".method public foobar()V"}
    \/ name = "foobar" /\ line = ".method public foobar()V"

\* line.strip()
Strip(line) ==
    CASE line = "    .locals 1" -> ".locals 1"
      [] line = "    return-void" -> "return-void"
      [] line = "    nop" -> "nop"
      [] OTHER -> line

\* `if f".method" in line and method_name in line`
IsStart(line, name) == HasMethodMarker(line) /\ NameIn(name, line)

\* `line.strip() == ".end method"`
IsEnd(line) == Strip(line) = ".end method"

\* `line.strip().startswith(".locals")`
IsLocals(line) == Strip(line) = ".locals 1"

\* content.split("\n") of a text of at most n lines
Texts(n) == UNION {[1..k -> SmaliLines] : k \in 1..n}

\* the empty string: split gives one empty line
EmptyText == <<"">>

\* ---- smali_utils.py -----------------------------------------------------
NoReturn == [success |-> FALSE, error |-> <<"not called">>]
NoCall == [tool |-> "none"]

NotFound(name) == <<"Method not found: ", name>>

RECURSIVE GetScan(_, _, _, _, _, _)
\* the loop of get_method_from_smali from line i on (i counts from 1, as
\* start_line = i + 1 does over enumerate)
GetScan(ls, i, name, in_method, method_lines, start_line) ==
    IF i > Len(ls)
    THEN [success |-> FALSE, method |-> EmptyText, error |-> NotFound(name)]
    ELSE IF IsStart(ls[i], name)
    THEN GetScan(ls, i + 1, name, TRUE, <<ls[i]>>, i)
    ELSE IF in_method
    THEN IF IsEnd(ls[i])
         THEN [success |-> TRUE, method |-> Append(method_lines, ls[i]),
               start_line |-> start_line, end_line |-> i, error |-> <<>>]
         ELSE GetScan(ls, i + 1, name, TRUE, Append(method_lines, ls[i]), start_line)
    ELSE GetScan(ls, i + 1, name, FALSE, method_lines, start_line)

\* a scan that starts at the second line
get_method_skipping_first(text, method_name) ==
    GetScan(text, 2, method_name, FALSE, <<>>, 0)

get_method_from_smali(text, method_name) ==
    GetScan(text, 1, method_name, FALSE, <<>>, 0)

RECURSIVE ReplaceScan(_, _, _, _, _, _, _)
\* the loop of replace_method_in_smali; result_lines holds the lines of
\* "\n".join(result_lines)
ReplaceScan(ls, i, name, body, in_method, method_replaced, result_lines) ==
    IF i > Len(ls)
    THEN IF method_replaced
         THEN [success |-> TRUE, content |-> result_lines, error |-> <<>>]
         ELSE [success |-> FALSE, content |-> EmptyText, error |-> NotFound(name)]
    ELSE IF IsStart(ls[i], name)
    THEN ReplaceScan(ls, i + 1, name, body, TRUE, TRUE, result_lines \o body)
    ELSE IF in_method
    THEN ReplaceScan(ls, i + 1, name, body, ~IsEnd(ls[i]), method_replaced, result_lines)
    ELSE ReplaceScan(ls, i + 1, name, body, FALSE, method_replaced,
                     Append(result_lines, ls[i]))

replace_method_in_smali(text, method_name, new_method_body) ==
    ReplaceScan(text, 1, method_name, new_method_body, FALSE, FALSE, <<>>)

\* result_lines.insert(-1, code): before the last element
InsertBeforeLast(rs, code) ==
    SubSeq(rs, 1, Len(rs) - 1) \o code \o SubSeq(rs, Len(rs), Len(rs))

RECURSIVE InsertScan(_, _, _, _, _, _, _, _)
\* the loop of insert_smali_code
InsertScan(ls, i, name, code, position, in_method, method_found, result_lines) ==
    IF i > Len(ls)
    THEN IF method_found
         THEN [success |-> TRUE, content |-> result_lines, error |-> <<>>]
         ELSE [success |-> FALSE, content |-> EmptyText, error |-> NotFound(name)]
    ELSE LET rs == Append(result_lines, ls[i]) IN
         IF IsStart(ls[i], name)
         THEN InsertScan(ls, i + 1, name, code, position, TRUE, TRUE, rs)
         ELSE IF in_method
         THEN IF position = "start" /\ IsLocals(ls[i])
              THEN InsertScan(ls, i + 1, name, code, position, TRUE, method_found,
                              rs \o code)
              ELSE IF IsEnd(ls[i])
              THEN InsertScan(ls, i + 1, name, code, position, FALSE, method_found,
                              IF position = "end" THEN InsertBeforeLast(rs, code) ELSE rs)
              ELSE InsertScan(ls, i + 1, name, code, position, TRUE, method_found, rs)
         ELSE InsertScan(ls, i + 1, name, code, position, FALSE, method_found, rs)

insert_smali_code(text, method_name, code_to_insert, position) ==
    InsertScan(text, 1, method_name, code_to_insert, position, FALSE, FALSE, <<>>)

\* ---- the bridge ---------------------------------------------------------
\* the bridge as constructed: no worker, no call
BridgeInit ==
    /\ process = NoProc
    /\ nextPid = 1
    /\ procState = [p \in Pids |-> "unborn"]
    /\ outOpen = [p \in Pids |-> FALSE]
    /\ pipe = [p \in Pids |-> <<>>]
    /\ nOut = [p \in Pids |-> 0]
    /\ inbox = [p \in Pids |-> <<>>]
    /\ wbuf = <<>>
    /\ signalled = {}
    /\ running = NoTask
    /\ nops = 0
    /\ op = [t \in Tasks |-> "none"]
    /\ cmd = [t \in Tasks |-> "none"]
    /\ pc = [t \in Tasks |-> "idle"]
    /\ lines = [t \in Tasks |-> <<>>]
    /\ brace_count = [t \in Tasks |-> 0]
    /\ started = [t \in Tasks |-> FALSE]
    /\ seen = [t \in Tasks |-> <<>>]
    /\ eof = [t \in Tasks |-> FALSE]
    /\ held0 = [t \in Tasks |-> NoProc]
    /\ result = [t \in Tasks |-> NoResult]
    /\ sent = [t \in Tasks |-> <<>>]
    /\ failedLast = FALSE
    /\ answers = [p \in Pids |-> <<>>]

\* no smali tool is called while the bridge is looked at
SmaliIdle ==
    /\ file = EmptyText
    /\ content = EmptyText
    /\ call = NoCall
    /\ ret = NoReturn
    /\ back = NoReturn

Init == BridgeInit /\ SmaliIdle

\* calls started from several threads
LoopAlwaysFree == TRUE

\* call_tool is a coroutine whose body calls the bridge synchronously: the
\* event loop starts another call only when no call is executing.
LoopIdle == running = NoTask

Exited(p) == p # NoProc /\ procState[p] = "exited"

\* a spawn on every call, whatever the handle holds
NeedSpawnAlways == TRUE

\* `self.process is None or self.process.poll() is not None`
NeedSpawn == process = NoProc \/ Exited(process)

\* the streams of a Popen object the bridge no longer refers to are gone
DropStreams(f, p, empty) == IF p = NoProc THEN f ELSE [f EXCEPT ![p] = empty]

\* a tool call that sends one command (fast_dex_get_class and the like)
StartSend(t, c) ==
    /\ LoopIdle
    /\ pc[t] = "idle"
    /\ nops < MaxOps
    /\ running' = t
    /\ nops' = nops + 1
    /\ op' = [op EXCEPT ![t] = "send"]
    /\ cmd' = [cmd EXCEPT ![t] = c]
    /\ pc' = [pc EXCEPT ![t] = "ensure"]
    /\ held0' = [held0 EXCEPT ![t] = process]
    /\ UNCHANGED <<procVars, localVars, result, sent, failedLast>>
    /\ UNCHANGED <<answers, smaliVars>>

\* fast_dex_open: `if jadx_path: editor.set_jadx_path(jadx_path)` and then
\* `return editor.open(apk_path)`; jadx tells whether JADX_PATH is set
StartOpen(t, jadx) ==
    /\ LoopIdle
    /\ pc[t] = "idle"
    /\ nops + (IF jadx THEN 2 ELSE 1) <= MaxOps
    /\ running' = t
    /\ nops' = nops + (IF jadx THEN 2 ELSE 1)
    /\ op' = [op EXCEPT ![t] = IF jadx THEN "open_jadx" ELSE "send"]
    /\ cmd' = [cmd EXCEPT ![t] = IF jadx THEN "set_jadx" ELSE "open"]
    /\ pc' = [pc EXCEPT ![t] = "ensure"]
    /\ held0' = [held0 EXCEPT ![t] = process]
    /\ UNCHANGED <<procVars, localVars, result, sent, failedLast>>
    /\ UNCHANGED <<answers, smaliVars>>

\* fast_dex_close -> FastDexEditor.close: `if self.process is not None`
StartClose(t) ==
    /\ LoopIdle
    /\ pc[t] = "idle"
    /\ nops < MaxOps
    /\ running' = t
    /\ nops' = nops + 1
    /\ op' = [op EXCEPT ![t] = "close"]
    /\ cmd' = [cmd EXCEPT ![t] = "close"]
    /\ held0' = [held0 EXCEPT ![t] = process]
    /\ IF process # NoProc
       THEN /\ pc' = [pc EXCEPT ![t] = "ensure"]
            /\ result' = result
       ELSE /\ pc' = [pc EXCEPT ![t] = "done"]
            /\ result' = [result EXCEPT ![t] = Outcome("closed")]
    /\ UNCHANGED <<procVars, localVars, sent, failedLast>>
    /\ UNCHANGED <<answers, smaliVars>>

\* the worker failed to start, the write failed, or the stream was closed
\* while the response was read
TransportError(t, r) == r.kind \in {"raised", "io_error"} \/ eof[t]

\* _send_command has returned value r: to the tool's caller, into
\* fast_dex_open which drops the value of set_jadx_path and goes on to
\* open, or into close() which drops it and goes on to terminate()
FinishSend(t, r) ==
    /\ failedLast' = TransportError(t, r)
    /\ IF op[t] = "close"
       THEN /\ pc' = [pc EXCEPT ![t] = "terminate"]
            /\ result' = result
       ELSE IF op[t] = "open_jadx" /\ cmd[t] = "set_jadx"
       THEN /\ pc' = [pc EXCEPT ![t] = "second"]
            /\ result' = result
       ELSE /\ pc' = [pc EXCEPT ![t] = "done"]
            /\ result' = [result EXCEPT ![t] = r]

\* fast_dex_open after set_jadx_path: editor.open enters _send_command with
\* fresh locals
OpenSecond(t) ==
    /\ running = t
    /\ pc[t] = "second"
    /\ cmd' = [cmd EXCEPT ![t] = "open"]
    /\ pc' = [pc EXCEPT ![t] = "ensure"]
    /\ held0' = [held0 EXCEPT ![t] = process]
    /\ lines' = [lines EXCEPT ![t] = <<>>]
    /\ brace_count' = [brace_count EXCEPT ![t] = 0]
    /\ started' = [started EXCEPT ![t] = FALSE]
    /\ seen' = [seen EXCEPT ![t] = <<>>]
    /\ eof' = [eof EXCEPT ![t] = FALSE]
    /\ UNCHANGED <<procVars, running, nops, op, result, sent, failedLast>>
    /\ UNCHANGED <<answers, smaliVars>>

\* _ensure_process: the held process is running, nothing to do
EnsureKeep(t) ==
    /\ running = t
    /\ pc[t] = "ensure"
    /\ ~NeedSpawn
    /\ pc' = [pc EXCEPT ![t] = "write"]
    /\ UNCHANGED <<procVars, localVars, running, nops, op, cmd, held0, result,
                   sent, failedLast>>
    /\ UNCHANGED <<answers, smaliVars>>

\* what a replaying respawn would put into the new worker's input
ReplayedInput(p) == IF p = NoProc THEN <<>> ELSE inbox[p]

\* Popen(..., stdin=PIPE): the input of the worker that replaces p is a new
\* pipe, nothing is in it
FreshInput(p) == <<>>

\* _ensure_process: Popen starts a new worker with fresh streams
EnsureSpawn(t) ==
    /\ running = t
    /\ pc[t] = "ensure"
    /\ NeedSpawn
    /\ nextPid <= MaxProcs
    /\ process' = nextPid
    /\ nextPid' = nextPid + 1
    /\ procState' = [procState EXCEPT ![nextPid] = "alive"]
    /\ outOpen' = [outOpen EXCEPT ![nextPid] = TRUE]
    /\ pipe' = DropStreams(pipe, process, <<>>)
    /\ nOut' = DropStreams(nOut, process, 0)
    /\ wbuf' = <<>>
    /\ pc' = [pc EXCEPT ![t] = "write"]
    /\ inbox' = [DropStreams(inbox, process, <<>>) EXCEPT ![nextPid] = FreshInput(process)]
    /\ UNCHANGED <<signalled, localVars, running, nops, op, cmd, held0, result,
                   sent, failedLast>>
    /\ UNCHANGED <<answers, smaliVars>>

\* _ensure_process: Popen raises (no java, no jar, no resources).  Line 40
\* is outside the try block: the exception leaves _send_command, and
\* fast_dex_open with it.  Inside close() the bare except swallows it.
EnsureFail(t) ==
    /\ running = t
    /\ pc[t] = "ensure"
    /\ NeedSpawn
    /\ failedLast' = TRUE
    /\ IF op[t] = "close"
       THEN /\ pc' = [pc EXCEPT ![t] = "clear"]
            /\ result' = result
       ELSE /\ pc' = [pc EXCEPT ![t] = "done"]
            /\ result' = [result EXCEPT ![t] = Outcome("raised")]
    /\ UNCHANGED <<procVars, localVars, running, nops, op, cmd, held0, sent>>
    /\ UNCHANGED <<answers, smaliVars>>

\* stdin.write(json.dumps(request) + "\n"): the stream is line buffered
\* (bufsize=1), so text that holds a newline goes to the pipe at once; a
\* pipe whose reader is gone raises BrokenPipeError, caught at line 79
Write(t) ==
    /\ running = t
    /\ pc[t] = "write"
    /\ LET text == wbuf \o RequestText(cmd[t]) IN
       IF ~HasNewline(text)
       THEN /\ wbuf' = text
            /\ inbox' = inbox
            /\ pc' = [pc EXCEPT ![t] = "flush"]
            /\ sent' = [sent EXCEPT ![t] = Append(@, cmd[t])]
            /\ failedLast' = FALSE
            /\ result' = result
       ELSE IF Exited(process)
       THEN /\ wbuf' = <<>>
            /\ inbox' = inbox
            /\ sent' = sent
            /\ FinishSend(t, Outcome("io_error"))
       ELSE /\ wbuf' = <<>>
            /\ inbox' = [inbox EXCEPT ![process] = @ \o text]
            /\ pc' = [pc EXCEPT ![t] = "flush"]
            /\ sent' = [sent EXCEPT ![t] = Append(@, cmd[t])]
            /\ failedLast' = FALSE
            /\ result' = result
    /\ UNCHANGED <<process, nextPid, procState, outOpen, pipe, nOut, signalled,
                   localVars, running, nops, op, cmd, held0>>
    /\ UNCHANGED <<answers, smaliVars>>

\* stdin.flush(): whatever is still buffered goes to the pipe
Flush(t) ==
    /\ running = t
    /\ pc[t] = "flush"
    /\ IF wbuf = <<>>
       THEN /\ inbox' = inbox
            /\ pc' = [pc EXCEPT ![t] = "read"]
            /\ UNCHANGED <<result, failedLast>>
       ELSE IF Exited(process)
       THEN /\ inbox' = inbox
            /\ FinishSend(t, Outcome("io_error"))
       ELSE /\ inbox' = [inbox EXCEPT ![process] = @ \o wbuf]
            /\ pc' = [pc EXCEPT ![t] = "read"]
            /\ UNCHANGED <<result, failedLast>>
    /\ wbuf' = <<>>
    /\ UNCHANGED <<process, nextPid, procState, outOpen, pipe, nOut, signalled,
                   localVars, running, nops, op, cmd, held0, sent>>
    /\ UNCHANGED <<answers, smaliVars>>

\* one turn of the `while True` loop, lines 52-70
Read(t) ==
    /\ running = t
    /\ pc[t] = "read"
    /\ LineReady(pipe[process], outOpen[process])
    /\ LET line == TakeLine(pipe[process])
           sc == ScanLine(line, 1, brace_count[t], started[t])
       IN
       /\ pipe' = [pipe EXCEPT ![process] = SubSeq(@, Len(line) + 1, Len(@))]
       /\ IF line = <<>>
          THEN /\ eof' = [eof EXCEPT ![t] = TRUE]
               /\ pc' = [pc EXCEPT ![t] = "after_loop"]
               /\ UNCHANGED <<lines, brace_count, started, seen>>
          ELSE /\ seen' = [seen EXCEPT ![t] = Append(@, line)]
               /\ brace_count' = [brace_count EXCEPT ![t] = sc.count]
               /\ started' = [started EXCEPT ![t] = sc.started]
               /\ lines' = [lines EXCEPT ![t] = IF sc.started THEN Append(@, line) ELSE @]
               /\ pc' = [pc EXCEPT ![t] =
                            IF Complete(sc.started, sc.count) THEN "after_loop" ELSE "read"]
               /\ eof' = eof
    /\ UNCHANGED <<process, nextPid, procState, outOpen, nOut, inbox, wbuf,
                   signalled, running, nops, op, cmd, held0, result, sent, failedLast>>
    /\ UNCHANGED <<answers, smaliVars>>

\* lines 72-78: no lines, or json.loads of the joined lines
AfterLoop(t) ==
    /\ running = t
    /\ pc[t] = "after_loop"
    /\ FinishSend(t, Decode(lines[t]))
    /\ UNCHANGED <<procVars, localVars, running, nops, op, cmd, held0, sent>>
    /\ UNCHANGED <<answers, smaliVars>>

\* close(): self.process.terminate() signals the process and does not wait
\* for it (a process that has been reaped is left alone)
Terminate(t) ==
    /\ running = t
    /\ pc[t] = "terminate"
    /\ signalled' = IF Exited(process) THEN signalled ELSE signalled \cup {process}
    /\ pc' = [pc EXCEPT ![t] = "clear"]
    /\ UNCHANGED <<process, nextPid, procState, outOpen, pipe, nOut, inbox, wbuf,
                   localVars, running, nops, op, cmd, held0, result, sent, failedLast>>
    /\ UNCHANGED <<answers, smaliVars>>

\* close() that leaves the handle as it is
HandleKept == process

\* close(): the value line 140 assigns to self.process
HandleAfterClose == NoProc

\* close(): `self.process = None`, whatever happened before
Clear(t) ==
    /\ running = t
    /\ pc[t] = "clear"
    /\ process' = HandleAfterClose
    /\ inbox' = IF process' = process THEN inbox ELSE DropStreams(inbox, process, <<>>)
    /\ pipe' = IF process' = process THEN pipe ELSE DropStreams(pipe, process, <<>>)
    /\ nOut' = IF process' = process THEN nOut ELSE DropStreams(nOut, process, 0)
    /\ wbuf' = <<>>
    /\ pc' = [pc EXCEPT ![t] = "done"]
    /\ result' = [result EXCEPT ![t] = Outcome("closed")]
    /\ UNCHANGED <<nextPid, procState, outOpen, signalled, localVars,
                   running, nops, op, cmd, held0, sent, failedLast>>
    /\ UNCHANGED <<answers, smaliVars>>

\* the tool call is over: its locals are gone, the event loop is free
Return(t) ==
    /\ running = t
    /\ pc[t] = "done"
    /\ running' = NoTask
    /\ pc' = [pc EXCEPT ![t] = "idle"]
    /\ op' = [op EXCEPT ![t] = "none"]
    /\ cmd' = [cmd EXCEPT ![t] = "none"]
    /\ lines' = [lines EXCEPT ![t] = <<>>]
    /\ brace_count' = [brace_count EXCEPT ![t] = 0]
    /\ started' = [started EXCEPT ![t] = FALSE]
    /\ seen' = [seen EXCEPT ![t] = <<>>]
    /\ eof' = [eof EXCEPT ![t] = FALSE]
    /\ held0' = [held0 EXCEPT ![t] = NoProc]
    /\ result' = [result EXCEPT ![t] = NoResult]
    /\ sent' = [sent EXCEPT ![t] = <<>>]
    /\ UNCHANGED <<procVars, nops, failedLast>>
    /\ UNCHANGED <<answers, smaliVars>>

\* ---- the worker (environment) -------------------------------------------
taskVars == <<running, nops, op, cmd, pc, lines, brace_count, started, seen,
              eof, held0, result, sent, failedLast>>

\* the worker the bridge holds writes one more piece to its stdout
WorkerEmit(p, c) ==
    /\ p = process
    /\ procState[p] = "alive"
    /\ outOpen[p]
    /\ nOut[p] < MaxOut
    /\ pipe' = [pipe EXCEPT ![p] = Append(@, c)]
    /\ nOut' = [nOut EXCEPT ![p] = @ + 1]
    /\ UNCHANGED <<process, nextPid, procState, outOpen, inbox, wbuf, signalled,
                   taskVars>>
    /\ UNCHANGED <<answers, smaliVars>>

\* the worker closes its stdout and keeps running
WorkerCloseStdout(p) ==
    /\ p = process
    /\ procState[p] = "alive"
    /\ outOpen[p]
    /\ outOpen' = [outOpen EXCEPT ![p] = FALSE]
    /\ UNCHANGED <<process, nextPid, procState, pipe, nOut, inbox, wbuf, signalled,
                   taskVars>>
    /\ UNCHANGED <<answers, smaliVars>>

\* a worker exits: by itself, on the signal of terminate(), or killed
WorkerDies(p) ==
    /\ procState[p] = "alive"
    /\ procState' = [procState EXCEPT ![p] = "exited"]
    /\ outOpen' = [outOpen EXCEPT ![p] = FALSE]
    /\ signalled' = signalled \ {p}
    /\ UNCHANGED <<process, nextPid, pipe, nOut, inbox, wbuf, taskVars>>
    /\ UNCHANGED <<answers, smaliVars>>

Next ==
    \/ \E t \in Tasks, c \in SendCommands : StartSend(t, c)
    \/ \E t \in Tasks : StartClose(t)
    \/ \E t \in Tasks : EnsureKeep(t)
    \/ \E t \in Tasks : EnsureSpawn(t)
    \/ \E t \in Tasks : EnsureFail(t)
    \/ \E t \in Tasks : Write(t)
    \/ \E t \in Tasks : Flush(t)
    \/ \E t \in Tasks : Read(t)
    \/ \E t \in Tasks : AfterLoop(t)
    \/ \E t \in Tasks : Terminate(t)
    \/ \E t \in Tasks : Clear(t)
    \/ \E t \in Tasks : Return(t)
    \/ \E p \in Pids, c \in Pieces : WorkerEmit(p, c)
    \/ \E p \in Pids : WorkerCloseStdout(p)
    \/ \E p \in Pids : WorkerDies(p)

\* the bridge called method by method: _send_command through the methods
\* of FastDexEditor, and close
Spec == Init /\ [][Next]_vars

\* the bridge called through the tool functions that send commands
\* (fast_dex_open, fast_dex_get_class and the like)
NextTools ==
    \/ \E t \in Tasks, c \in SendCommands : StartSend(t, c)
    \/ \E t \in Tasks, jadx \in BOOLEAN : StartOpen(t, jadx)
    \/ \E t \in Tasks : OpenSecond(t)
    \/ \E t \in Tasks : EnsureKeep(t)
    \/ \E t \in Tasks : EnsureSpawn(t)
    \/ \E t \in Tasks : EnsureFail(t)
    \/ \E t \in Tasks : Write(t)
    \/ \E t \in Tasks : Flush(t)
    \/ \E t \in Tasks : Read(t)
    \/ \E t \in Tasks : AfterLoop(t)
    \/ \E t \in Tasks : Return(t)
    \/ \E p \in Pids, c \in Pieces : WorkerEmit(p, c)
    \/ \E p \in Pids : WorkerCloseStdout(p)
    \/ \E p \in Pids : WorkerDies(p)

SpecTools == Init /\ [][NextTools]_vars

\* ---- a worker that answers ----------------------------------------------
\* the responses tried: each is one valid JSON object followed by the
\* newline that ends it. "k" is a member's key with its colon; a string
\* is written between two "q". The object is printed on one line or on
\* several, and its string value may hold braces.
Responses ==
    { <<"{", "}", "\n">>,
      <<"{", "\n", "k", "q", "q", "\n", "}", "\n">>,
      <<"{", "k", "q", "{", "}", "q", "}", "\n">>,
      <<"{", "k", "q", "}", "q", "\n", "}", "\n">> }

\* the requests the worker has been handed: each is two pieces
Requests(p) == Len(inbox[p]) \div 2

\* the worker reads the next request and writes its whole response
WorkerAnswer(p, r) ==
    /\ p = process
    /\ procState[p] = "alive"
    /\ outOpen[p]
    /\ Len(answers[p]) < Requests(p)
    /\ pipe' = [pipe EXCEPT ![p] = @ \o r]
    /\ nOut' = [nOut EXCEPT ![p] = @ + Len(r)]
    /\ answers' = [answers EXCEPT ![p] = Append(@, r)]
    /\ UNCHANGED <<process, nextPid, procState, outOpen, inbox, wbuf, signalled,
                   taskVars>>
    /\ UNCHANGED smaliVars

NextAnswer ==
    \/ \E t \in Tasks, c \in SendCommands : StartSend(t, c)
    \/ \E t \in Tasks : EnsureKeep(t)
    \/ \E t \in Tasks : EnsureSpawn(t)
    \/ \E t \in Tasks : EnsureFail(t)
    \/ \E t \in Tasks : Write(t)
    \/ \E t \in Tasks : Flush(t)
    \/ \E t \in Tasks : Read(t)
    \/ \E t \in Tasks : AfterLoop(t)
    \/ \E t \in Tasks : Return(t)
    \/ \E p \in Pids, r \in Responses : WorkerAnswer(p, r)

\* the bridge sending commands to a worker that stays alive and answers
\* every request with one valid JSON object
SpecAnswer == Init /\ [][NextAnswer]_vars

\* ---- parse_smali_class ---------------------------------------------------
\* bound on the number of lines of a parsed text
MaxParseLines == 4

\* the lines of the texts given to the parser: method start lines with and
\* without an access modifier, the end marker alone and followed by a
\* comment, an instruction, and field directives with one, several and no
\* access modifier.  (No .class, .super, .source or .implements line: the
\* branches of lines 34-56 are not taken and those entries stay empty.)
ParseLines ==
    {".method public foo()V", ".method bar()V", ".end method",
     ".end method # x", "    return-void",
     ".field private x:I", ".field static final y:I", ".field z:I"}

\* content.split("\n") of a text of at most n lines
ParseTexts(n) == UNION {[1..k -> ParseLines] : k \in 1..n}

\* `line.startswith(".field")`
StartsWithField(line) ==
    line \in {".field private x:I", ".field static final y:I", ".field z:I"}

\* `line.startswith(".method")`
StartsWithMethod(line) ==
    line \in {".method public foo()V", ".method public foobar()V", ".method bar()V"}

\* `line.startswith(".end method")`
StartsWithEndMethod(line) == line \in {".end method", ".end method # x"}

\* re.search found nothing
NoRegexMatch == [matched |-> FALSE]

\* re.search(r"\.field\s+(\S+)\s+(\S+):(\S+)", line): the directive, one
\* word, whitespace, then name:type.  With no modifier there is no second
\* word before the colon, with two the second word is not followed by a
\* colon: neither matches.
FieldMatch(line) ==
    IF line = ".field private x:I"
    THEN [access |-> "private", name |-> "x", type |-> "I"]
    ELSE NoRegexMatch

\* re.search(r"\.method\s+(.+?)\s+(\S+)\(([^)]*)\)(\S+)", line): at least
\* one word is needed between the directive and the name
MethodMatch(line) ==
    CASE line = ".method public foo()V" ->
             [access |-> "public", name |-> "foo", params |-> "", return_type |-> "V"]
      [] line = ".method public foobar()V" ->
             [access |-> "public", name |-> "foobar", params |-> "", return_type |-> "V"]
      [] OTHER -> NoRegexMatch

\* current_method = None
NoMethod == [name |-> "None"]

\* lines 72-79: the dict of the method that begins at `line`
NewMethod(line, method_lines) ==
    LET m == MethodMatch(line) IN
    [access |-> m.access, name |-> m.name, params |-> m.params,
     return_type |-> m.return_type, full_signature |-> line,
     start_line |-> Len(method_lines)]

\* lines 84-88: the method with its body and line count, as appended
Closed(current_method, method_lines) ==
    [access |-> current_method.access, name |-> current_method.name,
     params |-> current_method.params, return_type |-> current_method.return_type,
     full_signature |-> current_method.full_signature,
     start_line |-> current_method.start_line,
     body |-> method_lines, line_count |-> Len(method_lines)]

RECURSIVE ParseScan(_, _, _, _, _, _)
\* the loop of lines 30-93 from line i on; a body is kept as the lines that
\* "\n".join(method_lines) joins
ParseScan(ls, i, current_method, method_lines, fields, methods) ==
    IF i > Len(ls)
    THEN [class_name |-> "", super_class |-> "", source_file |-> "",
          interfaces |-> <<>>, fields |-> fields, methods |-> methods]
    ELSE LET line == Strip(ls[i]) IN
         IF StartsWithField(line)
         THEN ParseScan(ls, i + 1, current_method, method_lines,
                        IF FieldMatch(line) # NoRegexMatch
                        THEN Append(fields, FieldMatch(line)) ELSE fields,
                        methods)
         ELSE IF StartsWithMethod(line)
         THEN IF MethodMatch(line) # NoRegexMatch
              THEN ParseScan(ls, i + 1, NewMethod(line, method_lines), <<line>>,
                             fields, methods)
              ELSE ParseScan(ls, i + 1, current_method, method_lines, fields, methods)
         ELSE IF StartsWithEndMethod(line)
         THEN IF current_method # NoMethod
              THEN ParseScan(ls, i + 1, NoMethod, <<>>, fields,
                             Append(methods,
                                    Closed(current_method, Append(method_lines, line))))
              ELSE ParseScan(ls, i + 1, current_method, method_lines, fields, methods)
         ELSE IF current_method # NoMethod
         THEN ParseScan(ls, i + 1, current_method, Append(method_lines, line),
                        fields, methods)
         ELSE ParseScan(ls, i + 1, current_method, method_lines, fields, methods)

parse_smali_class(text) == ParseScan(text, 1, NoMethod, <<>>, <<>>, <<>>)

\* ---- the smali tools of server.py ----------------------------------------
\* the new_method_body arguments tried
Bodies ==
    {<<".method public foo()V", ".end method">>,
     <<".method public foobar()V", "    .locals 1", ".end method">>,
     <<"    return-void">>}

\* the code arguments tried
Codes == {<<"    nop">>}

\* the position arguments tried ("5": a line number, as the docstring allows)
Positions == {"start", "end", "5"}

SmaliInit ==
    /\ file \in Texts(MaxLines)
    /\ content = file
    /\ call = NoCall
    /\ ret = NoReturn
    /\ back = NoReturn
    /\ BridgeInit

\* a write of whatever the editor returned
WriteBackAlways(r) == r.content

\* `if result["success"]: write_file(...)`: the file after the tool
WriteBack(r) == IF r.success THEN r.content ELSE file

\* smali_get_method: read_file, get_method_from_smali
SmaliGetMethod(name) ==
    /\ call = NoCall
    /\ call' = [tool |-> "smali_get_method", method_name |-> name]
    /\ ret' = get_method_from_smali(file, name)
    /\ UNCHANGED <<file, content, back>>
    /\ UNCHANGED bridgeVars

\* smali_replace_method: read_file, replace_method_in_smali, write_file
SmaliReplaceMethod(name, body) ==
    /\ call = NoCall
    /\ call' = [tool |-> "smali_replace_method", method_name |-> name,
                new_method_body |-> body]
    /\ LET r == replace_method_in_smali(file, name, body) IN
       /\ ret' = r
       /\ file' = WriteBack(r)
    /\ UNCHANGED <<content, back>>
    /\ UNCHANGED bridgeVars

\* smali_replace_method called with the method text that smali_get_method
\* returns for the same file and name
SmaliReplaceExtracted(name) ==
    /\ get_method_from_smali(file, name).success
    /\ SmaliReplaceMethod(name, get_method_from_smali(file, name).method)

\* smali_insert_code: read_file, insert_smali_code, write_file
SmaliInsertCode(name, code, position) ==
    /\ call = NoCall
    /\ call' = [tool |-> "smali_insert_code", method_name |-> name,
                code |-> code, position |-> position]
    /\ LET r == insert_smali_code(file, name, code, position) IN
       /\ ret' = r
       /\ file' = WriteBack(r)
    /\ UNCHANGED <<content, back>>
    /\ UNCHANGED bridgeVars

\* smali_get_method with the same method name on the file an edit left
SmaliReadBack ==
    /\ call.tool \in {"smali_replace_method", "smali_insert_code"}
    /\ back = NoReturn
    /\ back' = get_method_from_smali(file, call.method_name)
    /\ UNCHANGED <<file, content, call, ret>>
    /\ UNCHANGED bridgeVars

SmaliNext ==
    \/ \E name \in MethodNames : SmaliGetMethod(name)
    \/ \E name \in MethodNames, body \in Bodies : SmaliReplaceMethod(name, body)
    \/ \E name \in MethodNames : SmaliReplaceExtracted(name)
    \/ \E name \in MethodNames, code \in Codes, position \in Positions :
           SmaliInsertCode(name, code, position)
    \/ SmaliReadBack

\* the smali tools alone: the bridge stays as constructed
SpecSmali == SmaliInit /\ [][SmaliNext]_vars

\* a smali file about to be parsed
ParseInit ==
    /\ file \in ParseTexts(MaxParseLines)
    /\ content = file
    /\ call = NoCall
    /\ ret = NoReturn
    /\ back = NoReturn
    /\ BridgeInit

\* smali_parse: read_file, parse_smali_class, result["success"] = True
SmaliParse ==
    /\ call = NoCall
    /\ call' = [tool |-> "smali_parse"]
    /\ LET r == parse_smali_class(file) IN
       ret' = [success |-> TRUE, class_name |-> r.class_name,
               super_class |-> r.super_class, source_file |-> r.source_file,
               interfaces |-> r.interfaces, fields |-> r.fields,
               methods |-> r.methods]
    /\ UNCHANGED <<file, content, back>>
    /\ UNCHANGED bridgeVars

ParseNext == SmaliParse

\* the smali_parse tool alone
SpecParse == ParseInit /\ [][ParseNext]_vars

\* ---- the read loop as a function of the whole output --------------------
RECURSIVE SplitLines(_)
\* the lines readline() returns when the whole text s is there and the
\* stream is closed after it
SplitLines(s) ==
    IF s = <<>> THEN <<>>
    ELSE LET l == TakeLine(s) IN <<l>> \o SplitLines(SubSeq(s, Len(l) + 1, Len(s)))

RECURSIVE ReadAll(_, _, _, _)
\* the `while True` loop over the lines ls: the local `lines` when it ends
ReadAll(ls, acc, count, st) ==
    IF ls = <<>> THEN acc
    ELSE LET sc == ScanLine(Head(ls), 1, count, st)
             acc2 == IF sc.started THEN Append(acc, Head(ls)) ELSE acc
         IN IF Complete(sc.started, sc.count) THEN acc2
            ELSE ReadAll(Tail(ls), acc2, sc.count, sc.started)

\* response_text when the output s is fed whole
WholeText(s) == Flatten(ReadAll(SplitLines(s), <<>>, 0, FALSE))

\* ---- vocabulary of the properties ---------------------------------------
InSend(t) == pc[t] \in {"ensure", "write", "flush", "read", "after_loop"}
Written(t) == pc[t] \in {"flush", "read", "after_loop"}
Live(p) == p # NoProc /\ procState[p] = "alive"

Count(s, ch) == Cardinality({i \in 1..Len(s) : s[i] = ch})
NetBraces(s) == Count(s, "{") - Count(s, "}")
HasOpen(s) == \E i \in 1..Len(s) : s[i] = "{"

\* s from its first "{" on (nothing when it has none)
FromFirstOpen(s) ==
    IF HasOpen(s)
    THEN SubSeq(s, CHOOSE i \in 1..Len(s) : s[i] = "{" /\ \A j \in 1..(i-1) : s[j] # "{", Len(s))
    ELSE <<>>

\* after the first n lines of ls a "{" has been seen and the braces balance
CompleteAt(ls, n) ==
    LET s == Flatten(SubSeq(ls, 1, n)) IN HasOpen(s) /\ NetBraces(s) = 0

\* index of the first line of ls that holds a "{", Len(ls) + 1 when none does
FirstOpenLine(ls) ==
    IF \E n \in 1..Len(ls) : HasOpen(ls[n])
    THEN CHOOSE n \in 1..Len(ls) : HasOpen(ls[n]) /\ \A m \in 1..(n-1) : ~HasOpen(ls[m])
    ELSE Len(ls) + 1

\* at some character the depth was positive and at a later one it was zero
ZeroAfterPositive(s) ==
    \E i \in 1..Len(s), j \in 1..Len(s) :
        i < j /\ NetBraces(SubSeq(s, 1, i)) > 0 /\ NetBraces(SubSeq(s, 1, j)) = 0

\* a JSON object, possibly with whitespace around it
JsonObject(s) == JsonValid(s) /\ s[SkipWs(s, 1)] = "{"

\* everything the worker fed the reader in the exchange of task t: what was
\* read, then what is waiting in the pipe
Fed(t) == Flatten(seen[t]) \o pipe[process]

\* ---- C1 -----------------------------------------------------------------
\* C1 (as claimed): _send_command never raises to its caller; every failure,
\* the failure to start the worker included, comes back as a result value.
\* The code calls _ensure_process outside its try block, so a failing Popen
\* raises out of _send_command.
CE_C1 == \A t \in Tasks : op[t] = "send" => result[t].kind # "raised"

\* ---- C2 -----------------------------------------------------------------
\* C2 (as claimed): when the held worker was killed before a send, that send
\* does not raise, and a read on the dead worker's stream never blocks.
\* The respawn goes through the same unguarded Popen as in C1.
CE_C2 ==
    \A t \in Tasks :
        /\ (op[t] = "send" /\ Exited(held0[t])) => result[t].kind # "raised"
        /\ (pc[t] = "read" /\ Exited(process))
               => LineReady(pipe[process], outOpen[process])

\* ---- C3 -----------------------------------------------------------------
\* C3 (as claimed): no two workers spawned by the bridge are alive at once.
CE_C3 == Cardinality({p \in Pids : procState[p] = "alive"}) <= 1

\* C3 (amended): the bridge holds at most one worker; a worker is spawned
\* only when the handle is empty or the held process has exited, the new
\* worker becomes the held one, and a held process that has not exited is
\* never replaced by another one (close() only empties the handle).
Thm_C3 ==
    [][ /\ process' \in Pids \cup {NoProc}
        /\ (nextPid' # nextPid => (~Live(process) /\ process' = nextPid))
        /\ ((Live(process) /\ process' # process) => process' = NoProc)
      ]_vars

\* a send found the worker it held dead and now holds another one
Wit_C3 ==
    \E t \in Tasks :
        op[t] = "send" /\ Exited(held0[t]) /\ Live(process) /\ process # held0[t]

Thm_C5 ==
    \A t \in Tasks :
        pc[t] \in {"read", "after_loop"} =>
            /\ wbuf = <<>>
            /\ Len(inbox[process]) >= 2
            /\ SubSeq(inbox[process], Len(inbox[process]) - 1, Len(inbox[process]))
                   = <<cmd[t], "\n">>

\* lines of the response have been read after the request was delivered
Wit_C5 ==
    \E t \in Tasks :
        pc[t] = "after_loop" /\ lines[t] # <<>> /\ inbox[process] = <<cmd[t], "\n">>

\* ---- C6 -----------------------------------------------------------------
\* C6 (as claimed): the reader stops the instant the depth returns to zero
\* after having been positive: it never goes on to read another line then.
CE_C6 == \A t \in Tasks : pc[t] = "read" => ~ZeroAfterPositive(Flatten(seen[t]))

\* C6 (amended): the reader tests for completion once per line, after the
\* whole line is counted: the response is complete at the first line end at
\* which a "{" has been seen and the depth is zero; from then on it reads
\* nothing more; it leaves the loop only then or at end of file; and the
\* response text is the concatenation, in read order, of the lines read
\* from the first line holding a "{" on.
Thm_C6 ==
    \A t \in Tasks :
        /\ \A n \in 1..Len(seen[t]) :
               CompleteAt(seen[t], n) => (n = Len(seen[t]) /\ pc[t] # "read")
        /\ pc[t] = "after_loop" =>
               (eof[t] \/ (seen[t] # <<>> /\ CompleteAt(seen[t], Len(seen[t]))))
        /\ lines[t] = SubSeq(seen[t], FirstOpenLine(seen[t]), Len(seen[t]))
        /\ (pc[t] = "done" /\ result[t].kind = "value")
               => result[t].value = JsonValue(Flatten(lines[t]))
        /\ (pc[t] = "done" /\ result[t].kind \in {"value", "json_error"})
               => lines[t] # <<>>

\* a frame was completed after a line that is not part of the response
Wit_C6 ==
    \E t \in Tasks :
        pc[t] = "after_loop" /\ ~eof[t] /\ Len(seen[t]) = 2 /\ Len(lines[t]) = 1

\* ---- C7 -----------------------------------------------------------------
\* C7 (as claimed): characters before the first "{" of an exchange do not
\* change the depth counter: it is the depth of the text from the first "{".
\* The code decrements the counter for every "}", started or not.
CE_C7 ==
    \A t \in Tasks : brace_count[t] = NetBraces(FromFirstOpen(Flatten(seen[t])))

\* ---- C8 -----------------------------------------------------------------
\* C8 (as claimed): when the output closes before a complete frame was seen,
\* send returns the "no response" error.  The code returns it only when no
\* line was kept; a partial frame goes to json.loads.
CE_C8 ==
    \A t \in Tasks :
        (pc[t] = "done" /\ op[t] = "send" /\ eof[t]) => result[t].kind = "no_response"

\* ---- C9 -----------------------------------------------------------------
\* C9: the text the reader reconstructs does not depend on how the output
\* arrives: whatever was read piece by piece, the response text is the one
\* the reader builds when the same output is there whole (for a JSON object
\* in particular).
Thm_C9 ==
    \A t \in Tasks :
        pc[t] = "after_loop" => Flatten(lines[t]) = WholeText(Fed(t))

\* a JSON object over two lines, written in four pieces, has been read
Wit_C9 ==
    \E t \in Tasks :
        /\ pc[t] = "after_loop" /\ ~eof[t]
        /\ JsonObject(Fed(t)) /\ Len(lines[t]) = 2 /\ nOut[process] = 4

\* ---- C10 ----------------------------------------------------------------
\* C10: when close() has returned the handle is empty and the caller got a
\* normal return, whatever failed on the way; a send that starts with the
\* empty handle writes its request only after a spawn, to the worker it
\* spawned, which has received nothing before.
Thm_C10 ==
    \A t \in Tasks :
        /\ (pc[t] = "done" /\ op[t] = "close")
               => (process = NoProc /\ result[t].kind = "closed")
        /\ (op[t] = "send" /\ held0[t] = NoProc /\ pc[t] \in {"write", "flush", "read", "after_loop"})
               => /\ process # NoProc
                  /\ process = nextPid - 1
                  /\ (pc[t] = "write" => inbox[process] = <<>>)
                  /\ (Written(t) => inbox[process] = <<cmd[t], "\n">>)

\* after a close() of worker 1, a send has written to the new worker 2
Wit_C10 ==
    \E t \in Tasks :
        /\ op[t] = "send" /\ held0[t] = NoProc /\ pc[t] = "read"
        /\ process = 2 /\ inbox[process] = <<cmd[t], "\n">>

\* ---- C11 ----------------------------------------------------------------
\* a call of _send_command made by a tool other than close
ToolSend(t) == op[t] \in {"send", "open_jadx"}

\* C11 (as claimed): the send that follows a send which ended in a transport
\* error (the worker failed to start, or its stream closed in the middle of
\* the exchange) spawns a new worker before it writes its request.  The code
\* spawns only when the handle is empty or poll() reports an exit: a worker
\* that closed its output and is still running is kept and written to again.
CE_C11 ==
    \A t \in Tasks :
        (ToolSend(t) /\ pc[t] = "write" /\ failedLast) => process # held0[t]

\* ---- C12 ----------------------------------------------------------------
\* the commands a tool call sends, in order
Plan(t) == IF op[t] = "open_jadx" THEN <<"set_jadx", "open">> ELSE <<cmd[t]>>

\* s is ps with some of its elements left out (ps has no repeated element)
SubPlan(s, ps) ==
    /\ \A i \in 1..Len(s) : \E j \in 1..Len(ps) : s[i] = ps[j]
    /\ \A i \in 1..Len(s), j \in 1..Len(s) : i < j =>
           \E k \in 1..Len(ps), l \in 1..Len(ps) : k < l /\ s[i] = ps[k] /\ s[j] = ps[l]

\* C12 (as claimed): every dispatcher operation, open included, writes
\* exactly one request per call.
CE_C12 == \A t \in Tasks : (ToolSend(t) /\ pc[t] = "done") => Len(sent[t]) <= 1

\* C12 (amended): every dispatcher operation other than open makes one
\* bridge exchange per call, and open makes one when JADX_PATH is not set
\* and two (set_jadx, then open) when it is: each command of the call is
\* written at most once and in order, it has been written once when its
\* response is read, nothing is written again after a failed exchange, and
\* a worker spawned by a send has received nothing but the request of that
\* send.
Thm_C12 ==
    \A t \in Tasks :
        op[t] # "none" =>
            /\ SubPlan(sent[t], Plan(t))
            /\ (pc[t] \in {"ensure", "write"} =>
                    \A i \in 1..Len(sent[t]) : sent[t][i] # cmd[t])
            /\ (Written(t) => (sent[t] # <<>> /\ sent[t][Len(sent[t])] = cmd[t]))
            /\ ((pc[t] = "done" /\ op[t] = "send" /\ result[t].kind \in {"raised", "io_error"})
                    => sent[t] = <<>>)
            /\ ((pc[t] = "done" /\ ToolSend(t)
                      /\ result[t].kind \in {"value", "json_error", "no_response"})
                    => (sent[t] # <<>> /\ sent[t][Len(sent[t])] = cmd[t]))
            /\ ((ToolSend(t) /\ process # held0[t] /\ pc[t] = "write")
                    => inbox[process] = <<>>)
            /\ ((ToolSend(t) /\ process # held0[t] /\ Written(t))
                    => inbox[process] = RequestText(cmd[t]))

\* open with JADX_PATH set: the worker that got set_jadx died, the send of
\* open spawned another one and it has received the open request only
Wit_C12 ==
    \E t \in Tasks :
        /\ op[t] = "open_jadx" /\ cmd[t] = "open" /\ pc[t] = "read"
        /\ sent[t] = <<"set_jadx", "open">>
        /\ Exited(held0[t]) /\ process = 2
        /\ inbox[process] = RequestText("open")

\* ---- vocabulary of the editor properties --------------------------------
\* the positions of ls (counted from 1) that satisfy P
Where(ls, P(_)) == {i \in 1..Len(ls) : P(ls[i])}

Least(S) == CHOOSE i \in S : \A j \in S : i <= j

\* the first line of ls that is a method start holding name, 0 if none
FirstStart(ls, name) ==
    LET S == {i \in 1..Len(ls) : IsStart(ls[i], name)} IN
    IF S = {} THEN 0 ELSE Least(S)

\* the first end marker of ls after line k, 0 if none
EndAfter(ls, k) ==
    LET S == {j \in (k + 1)..Len(ls) : IsEnd(ls[j])} IN
    IF S = {} THEN 0 ELSE Least(S)

RECURSIVE Balanced(_, _, _)
\* from line i on, method starts and end markers alternate and the last
\* method is closed
Balanced(ls, i, open) ==
    IF i > Len(ls) THEN ~open
    ELSE IF HasMethodMarker(ls[i]) THEN ~open /\ Balanced(ls, i + 1, TRUE)
    ELSE IF IsEnd(ls[i]) THEN open /\ Balanced(ls, i + 1, FALSE)
    ELSE Balanced(ls, i + 1, open)

\* every method of the text is closed before the next one starts
WellFormed(ls) == Balanced(ls, 1, FALSE)

Called(tool) == call.tool = tool

\* ---- C13 ----------------------------------------------------------------
\* C13 (as claimed): when extract succeeds it returns the span of the first
\* method-start line that holds the name: the lines from that line through
\* the first end marker after it, with their positions counted from 1; a
\* later matching start line does not change the span.  The code tests for
\* a start line on every line, inside a method too, and starts the span
\* again at a matching start line met before the end marker.
CE_C13 ==
    (Called("smali_get_method") /\ ret.success) =>
        LET s == FirstStart(content, call.method_name)
            e == EndAfter(content, s)
        IN /\ ret.start_line = s
           /\ ret.end_line = e
           /\ ret.method = SubSeq(content, s, e)

\* ---- C14 ----------------------------------------------------------------
\* ls with the lines s..e replaced by the lines of text
Spliced(ls, s, e, text) == SubSeq(ls, 1, s - 1) \o text \o SubSeq(ls, e + 1, Len(ls))

\* ls with the lines of text put in after line k
InsertedAfter(ls, k, text) == Spliced(ls, k + 1, k, text)

\* C14 (as claimed, here for a file in which every method is closed): a
\* successful replaceMethod returns the lines before the first matching
\* start line, then the new text, then the lines after that method's end
\* marker, and nothing else changes.  The code goes on scanning after the
\* end marker and replaces every later method whose start line holds the
\* name as well.
CE_C14 ==
    (Called("smali_replace_method") /\ ret.success /\ WellFormed(content)) =>
        LET s == FirstStart(content, call.method_name)
            e == EndAfter(content, s)
        IN ret.content = Spliced(content, s, e, call.new_method_body)

\* ---- C15 ----------------------------------------------------------------
\* text is one complete method whose start line holds name: a start line,
\* lines that are no markers, the end marker
CompleteMethod(text, name) ==
    /\ Len(text) >= 2
    /\ IsStart(text[1], name)
    /\ IsEnd(text[Len(text)])
    /\ \A i \in 2..(Len(text) - 1) : ~HasMethodMarker(text[i]) /\ ~IsEnd(text[i])

\* C15: when the file holds a method matching the name and the new text B is
\* a complete method whose start line holds the name, extract on the file
\* that replaceMethod wrote returns exactly B.
Thm_C15 ==
    (/\ Called("smali_replace_method") /\ ret.success
     /\ CompleteMethod(call.new_method_body, call.method_name)
     /\ back # NoReturn)
        => /\ file = ret.content
           /\ back.success
           /\ back.method = call.new_method_body

\* a three-line method was put in place of a method that is not the first
\* thing in the file, and read back
Wit_C15 ==
    /\ Called("smali_replace_method") /\ ret.success /\ back # NoReturn
    /\ CompleteMethod(call.new_method_body, call.method_name)
    /\ Len(call.new_method_body) = 3
    /\ FirstStart(content, call.method_name) = 3
    /\ back.start_line = 3 /\ back.end_line = 5

\* ---- C16 ----------------------------------------------------------------
\* the positions of the locals lines inside the method that spans s..e
LocalsIn(ls, s, e) == {i \in (s + 1)..(e - 1) : IsLocals(ls[i])}

\* C16 (as claimed, here for a file in which every method is closed):
\* insertCode at "start", when the target method has a locals line, returns
\* the file with the code as one new line right after the first locals line
\* of that method and no other change.  The code puts the code after every
\* locals line of every method whose start line holds the name.
CE_C16 ==
    (/\ Called("smali_insert_code") /\ call.position = "start"
     /\ WellFormed(content)
     /\ FirstStart(content, call.method_name) # 0) =>
        LET s == FirstStart(content, call.method_name)
            e == EndAfter(content, s)
        IN LocalsIn(content, s, e) # {} =>
               /\ ret.success
               /\ ret.content = InsertedAfter(content, Least(LocalsIn(content, s, e)), call.code)

\* ---- C17 ----------------------------------------------------------------
\* C17 (as claimed, here for a file in which every method is closed):
\* insertCode at "end" returns the file with the code as one new line right
\* before the end marker of the target method and no other change.  The
\* code puts the code before the end marker of every method whose start
\* line holds the name.
CE_C17 ==
    (/\ Called("smali_insert_code") /\ call.position = "end"
     /\ WellFormed(content)
     /\ FirstStart(content, call.method_name) # 0) =>
        LET s == FirstStart(content, call.method_name)
            e == EndAfter(content, s)
        IN /\ ret.success
           /\ ret.content = InsertedAfter(content, e - 1, call.code)

\* ---- C18 ----------------------------------------------------------------
\* the tool that ran was given a name that no method start line holds
NoMatch == call.tool # "none" /\ FirstStart(content, call.method_name) = 0

\* C18: when the name matches no method start line, extract, replaceMethod
\* and insertCode each fail with "method not found", return no text, and the
\* file is what it was.
Thm_C18 ==
    NoMatch =>
        /\ ~ret.success
        /\ ret.error = NotFound(call.method_name)
        /\ (Called("smali_get_method") => ret.method = EmptyText)
        /\ (~Called("smali_get_method") => ret.content = EmptyText)
        /\ file = content

\* replaceMethod was asked for foobar on a file whose only method is foo
Wit_C18 ==
    /\ NoMatch /\ Called("smali_replace_method") /\ call.method_name = "foobar"
    /\ FirstStart(content, "foo") = 1 /\ WellFormed(content) /\ Len(content) > 2
    /\ file = content

\* ---- C19 ----------------------------------------------------------------
\* C19 (as claimed): insertCode with a position that is neither "start" nor
\* "end" returns a failure, never a success.  The code never looks at the
\* position except to compare it with "start" and "end": with any other
\* value it inserts nothing and returns success when the method exists.
CE_C19 ==
    (Called("smali_insert_code") /\ call.position \notin {"start", "end"})
        => ~ret.success

\* ---- C20 ----------------------------------------------------------------
\* C20 (as claimed, here for a file in which every method is closed):
\* insertCode at "start" on a target method without a locals line returns
\* success and the file unchanged.  A later method whose start line holds
\* the name too and that has a locals line gets the code (see C16).
CE_C20 ==
    (/\ Called("smali_insert_code") /\ call.position = "start"
     /\ WellFormed(content)
     /\ FirstStart(content, call.method_name) # 0) =>
        LET s == FirstStart(content, call.method_name)
            e == EndAfter(content, s)
        IN LocalsIn(content, s, e) = {} =>
               /\ ret.success
               /\ ret.content = content
               /\ file = content

\* ---- C21 ----------------------------------------------------------------
\* C21 (as claimed): against a live worker that answers each request with
\* one valid JSON object, the k-th send returns the k-th response and
\* leaves nothing of it in the pipe.  The reader counts the braces inside
\* string values as well: an object printed over several lines whose first
\* line holds a string with a "}" balances the counter at the end of that
\* line, the send returns a decode error there and the rest of the
\* response stays in the pipe for the next send.
CE_C21 ==
    \A t \in Tasks :
        (pc[t] = "done" /\ op[t] = "send" /\ result[t].kind # "raised") =>
            LET k == Requests(process) IN
            /\ Len(answers[process]) = k
            /\ result[t] = [kind |-> "value", value |-> JsonValue(answers[process][k])]
            /\ pipe[process] = <<>>

CE_C23 ==
    \A t \in Tasks :
        (op[t] = "close" /\ pc[t] # "done") => process = held0[t]

\* ---- C24 ----------------------------------------------------------------
\* C24 (as claimed): replaceMethod and insertCode at "start" or "end"
\* succeed exactly when extract succeeds on the same text and name.  On a
\* matching start line that no end marker follows, extract runs off the end
\* of the file and fails, while replace has set method_replaced and insert
\* has set found at the start line: both return success.
CE_C24 ==
    (\/ Called("smali_replace_method")
     \/ Called("smali_insert_code") /\ call.position \in {"start", "end"})
        => ret.success = get_method_from_smali(content, call.method_name).success

\* ---- C25 ----------------------------------------------------------------
\* C25 (as claimed): replacing a method by the text extract returns for it
\* succeeds and gives the document back unchanged.  Replace puts the new
\* body in the place of every method whose start line holds the name (see
\* C14): with foo and foobar in the file, both become the text of foo.
CE_C25 ==
    LET g == get_method_from_smali(content, call.method_name) IN
    (/\ Called("smali_replace_method")
     /\ WellFormed(content)
     /\ g.success
     /\ call.new_method_body = g.method)
        => (ret.success /\ ret.content = content /\ file = content)

\* ---- vocabulary of the parser properties --------------------------------
\* a method-start marker line, an end marker line (exactly the marker once
\* trimmed), a line that merely begins with the end marker
StartMarker(line) == StartsWithMethod(Strip(line))
EndMarker(line) == Strip(line) = ".end method"
EndMarkerPrefixed(line) == StartsWithEndMethod(Strip(line)) /\ ~EndMarker(line)
FieldDirective(line) == StartsWithField(Strip(line))

RECURSIVE SpanScan(_, _, _, _)
\* the spans <<s, e>> of ls in document order: s a start marker line, e the
\* first end marker after it, no start marker in between (s = 0: outside)
SpanScan(ls, i, s, acc) ==
    IF i > Len(ls) THEN acc
    ELSE IF StartMarker(ls[i]) THEN SpanScan(ls, i + 1, i, acc)
    ELSE IF EndMarker(ls[i]) /\ s # 0 THEN SpanScan(ls, i + 1, 0, Append(acc, <<s, i>>))
    ELSE SpanScan(ls, i + 1, s, acc)

Spans(ls) == SpanScan(ls, 1, 0, <<>>)

\* the lines s..e of ls, trimmed
Trimmed(ls, s, e) == [k \in 1..(e - s + 1) |-> Strip(ls[s + k - 1])]

\* every start marker line of ls occurs once, so that an emitted method
\* names its start line
DistinctStarts(ls) ==
    \A i, j \in 1..Len(ls) :
        (StartMarker(ls[i]) /\ Strip(ls[i]) = Strip(ls[j])) => i = j

\* the line of ls whose trimmed text is sig
LineOf(ls, sig) == CHOOSE i \in 1..Len(ls) : Strip(ls[i]) = sig

\* the first line after s that begins with a start or an end marker, 0 if none
NextMarker(ls, s) ==
    Least({i \in (s + 1)..Len(ls) :
              StartMarker(ls[i]) \/ StartsWithEndMethod(Strip(ls[i]))})

\* the name a field directive declares
FieldName(line) ==
    CASE Strip(line) = ".field private x:I" -> "x"
      [] Strip(line) = ".field static final y:I" -> "y"
      [] Strip(line) = ".field z:I" -> "z"
      [] OTHER -> ""

\* the names of the field directives of ls, in document order
FieldNames(ls) ==
    LET fs == SelectSeq(ls, FieldDirective) IN [k \in 1..Len(fs) |-> FieldName(fs[k])]

\* ---- C26 ----------------------------------------------------------------
\* C26 (as claimed, on a text whose end markers are all exact): every span
\* from a start marker line to the next end marker yields one methods
\* entry, in document order, whose body is every line of the span, trimmed.
\* The regular expression of line 69 wants a word between ".method" and the
\* name: a start line without access modifier yields no entry; and a field
\* directive inside the span is not put into the body.
CE_C26 ==
    (Called("smali_parse") /\ \A i \in 1..Len(content) : ~EndMarkerPrefixed(content[i]))
        => LET sp == Spans(content) IN
           /\ Len(ret.methods) = Len(sp)
           /\ \A k \in 1..Len(sp) :
                  ret.methods[k].body = Trimmed(content, sp[k][1], sp[k][2])

\* ---- C27 ----------------------------------------------------------------
\* C27 (as claimed): a method whose start line is followed by another start
\* marker line before any end marker is discarded: it is not in the output.
\* When the second start line has no access modifier the regular expression
\* does not match (see C26), current_method stays, and the first method is
\* emitted at the end marker of the second.
CE_C27 ==
    (Called("smali_parse") /\ DistinctStarts(content)) =>
        \A k \in 1..Len(ret.methods) :
            LET s == LineOf(content, ret.methods[k].full_signature)
                n == NextMarker(content, s)
            IN n # 0 /\ ~StartMarker(content[n])

\* ---- C28 ----------------------------------------------------------------
\* C28 (as claimed): the parser closes a method only on a line that, once
\* trimmed, is exactly the end marker, as extract does.  The parser tests
\* startswith(".end method"): a line with the marker and a comment closes
\* the method in the parser and not in get_method_from_smali.
CE_C28 ==
    Called("smali_parse") =>
        \A k \in 1..Len(ret.methods) :
            LET m == ret.methods[k] IN m.body[m.line_count] = ".end method"

\* ---- C29 ----------------------------------------------------------------
\* C29 (as claimed, on a text without method markers): every field
\* directive adds one entry, in document order, whatever the number of its
\* access modifiers.  The regular expression of line 59 matches a directive
\* with exactly one modifier; the others add nothing.
CE_C29 ==
    (Called("smali_parse") /\ \A i \in 1..Len(content) : ~StartMarker(content[i]))
        => /\ Len(ret.fields) = Len(FieldNames(content))
           /\ \A k \in 1..Len(ret.fields) : ret.fields[k].name = FieldNames(content)[k]

\* ---- C30 ----------------------------------------------------------------
\* C30 (as claimed): the start line recorded for an emitted method is the
\* index of its start marker line in the text (counted from 0 or from 1).
\* Line 77 records len(method_lines), the length of the buffer the previous
\* method left: 0, or the length of an unfinished method.
CE_C30 ==
    (Called("smali_parse") /\ DistinctStarts(content)) =>
        \A k \in 1..Len(ret.methods) :
            LET s == LineOf(content, ret.methods[k].full_signature) IN
            ret.methods[k].start_line \in {s - 1, s}

====
